---- MODULE Spec2Model ----
(***************************************************************************)
(* A model of the ts-query SQL builder (src/src/Query.ts).                 *)
(*                                                                         *)
(* The JavaScript heap is modelled explicitly: `heap` is the sequence of   *)
(* all objects allocated so far, an object's identity is its index.  A     *)
(* SelectQuery, a Table, a Join, a field record {name, alias}, an order    *)
(* record {field, direction} and a Condition are heap objects; an array is *)
(* held inside the object that owns it, as the sequence of the identities  *)
(* (or strings) it contains.  `ret` is the record of the last call made by *)
(* the client: the method, the receiver, the arguments and what came back  *)
(* (a value or a thrown error).  `calls` counts the calls made.            *)
(*                                                                         *)
(* SQL text and error messages are sequences of string pieces; the         *)
(* concatenation of the pieces is the text.  Every piece is a literal      *)
(* chunk of the template string that produces it in the source.            *)
(***************************************************************************)
EXTENDS Integers, Sequences, FiniteSets, TLC

VARIABLES heap, ret, calls

vars == <<heap, ret, calls>>

(***************************************************************************)
(* Bounds of the model.                                                    *)
(***************************************************************************)
\* Number of calls the client makes.
MaxCalls == 3
\* limit(n) and offset(n) are called with n in 0..MaxBound.
MaxBound == 1

(***************************************************************************)
(* Optional values: undefined is <<>>, a present value v is <<v>>.         *)
(***************************************************************************)
Undefined == <<>>

Some(v) == <<v>>

\* a parameter with a default value
Default(o, d) == IF o = Undefined THEN d ELSE o[1]

\* JavaScript truthiness of an optional string: undefined and "" are falsy.
TruthyString(o) == o # Undefined /\ o[1] # ""

\* JavaScript truthiness of an optional number: undefined and 0 are falsy.
TruthyNumber(o) == o # Undefined /\ o[1] # 0

(***************************************************************************)
(* Results of operations that allocate: the new heap and what is returned. *)
(***************************************************************************)
Res(h, out) == [h |-> h, out |-> out]

\* `const x = e; F(x)`: F applied to the value of e, which is computed once.
Let(e, F(_)) == CHOOSE y \in {F(x) : x \in {e}} : TRUE

\* `new X(...)`: the object is appended to the heap, its identity returned.
New(h, obj) == Res(Append(h, obj), Len(h) + 1)

\* xs.map(F) for an F that allocates: left to right, threading the heap.
RECURSIVE MapAlloc(_, _, _)
MapAlloc(F(_, _), h, xs) ==
  IF xs = <<>> THEN Res(h, <<>>)
  ELSE Let(F(h, Head(xs)), LAMBDA r :
       Let(MapAlloc(F, r.h, Tail(xs)), LAMBDA rest :
       Res(rest.h, <<r.out>> \o rest.out)))

\* xs.map(F) for a pure F.
Map(F(_), xs) == [i \in 1..Len(xs) |-> F(xs[i])]

\* pieces.join(sep) for a sequence of texts.
RECURSIVE JoinText(_, _)
JoinText(texts, sep) ==
  IF texts = <<>> THEN <<>>
  ELSE IF Len(texts) = 1 THEN texts[1]
  ELSE texts[1] \o <<sep>> \o JoinText(Tail(texts), sep)

(***************************************************************************)
(* The objects.                                                            *)
(***************************************************************************)
\* TableSource = string | SelectQuery
StringSource(name) == [isQuery |-> FALSE, name |-> name, ref |-> 0]

QuerySource(q) == [isQuery |-> TRUE, name |-> "", ref |-> q]

Table(source, alias) == [kind |-> "Table", source |-> source, alias |-> alias]

Join(table, condition, type) ==
  [kind |-> "Join", table |-> table, condition |-> condition, type |-> type]

SelectField(name, alias) == [kind |-> "SelectField", name |-> name, alias |-> alias]

Order(field, direction) == [kind |-> "Order", field |-> field, direction |-> direction]

\* A SelectQuery as its constructor leaves it.
SelectQuery ==
  [kind |-> "SelectQuery", tables |-> <<>>, joins |-> <<>>, fields |-> <<>>,
   where |-> <<>>, having |-> <<>>, limit |-> Undefined, offset |-> Undefined,
   orderBy |-> <<>>, groupBy |-> <<>>, unionQueries |-> <<>>]

\* Conditions.equal(key, value) and Conditions.null(key).
Condition(ctype, ckey, cvalue) ==
  [kind |-> "Condition", type |-> ctype, key |-> ckey, value |-> cvalue]

\* enum UnionType (UNION is a reserved word of TLA+)
UnionType_UNION == "UNION"

UnionType_UNION_ALL == "UNION ALL"

(***************************************************************************)
(* Flavors.                                                                *)
(***************************************************************************)
Flavors == {"mysql", "awsTimestream"}

DefaultFlavor == "mysql"

\* The quote a flavor puts around an identifier.  A TLA+ string cannot hold
\* the backquote of MySQL: the piece "<bq>" stands for it.
FlavorQuote(f) == IF f = "mysql" THEN "<bq>" ELSE "\""

FlavorEscapeColumn(f, name) == <<FlavorQuote(f), name, FlavorQuote(f)>>

FlavorEscapeTable(f, name) == <<FlavorQuote(f), name, FlavorQuote(f)>>

ConditionToSQL(c, f) ==
  IF c.type = "EQUAL"
  THEN FlavorEscapeColumn(f, c.key) \o <<" = ", ToString(c.value)>>
  ELSE FlavorEscapeColumn(f, c.key) \o <<" IS NULL">>

(***************************************************************************)
(* toSQL.                                                                  *)
(***************************************************************************)
RECURSIVE SelectQueryToSQL(_, _, _)

isSelectQuery(source) == source.isQuery

\* An escapeTable that renders a nested query without passing the flavor on.
escapeTableDefault(h, source, f) ==
  IF isSelectQuery(source)
  THEN <<"(">> \o SelectQueryToSQL(h, source.ref, DefaultFlavor) \o <<")">>
  ELSE FlavorEscapeTable(f, source.name)

escapeTable(h, source, f) ==
  IF isSelectQuery(source)
  THEN <<"(">> \o SelectQueryToSQL(h, source.ref, f) \o <<")">>
  ELSE FlavorEscapeTable(f, source.name)

\* A Table.toSQL that synthesizes no alias for a nested source.
TableToSQLNoDefault(h, t, f) ==
  escapeTable(h, h[t].source, f) \o
  (IF TruthyString(h[t].alias) THEN <<" AS ">> \o FlavorEscapeColumn(f, h[t].alias[1]) ELSE <<>>)

TableToSQL(h, t, f) ==
  LET isSelect == isSelectQuery(h[t].source)
      tableName == escapeTable(h, h[t].source, f)
      alias == IF isSelect /\ ~TruthyString(h[t].alias) THEN Some("t") ELSE h[t].alias
  IN tableName \o
     (IF TruthyString(alias) THEN <<" AS ">> \o FlavorEscapeColumn(f, alias[1]) ELSE <<>>)

JoinToSQL(h, j, f) ==
  <<h[j].type, " JOIN ">> \o TableToSQL(h, h[j].table, f) \o
  (IF h[j].condition # Undefined
   THEN <<" ON ">> \o ConditionToSQL(h[h[j].condition[1]], f)
   ELSE <<>>)

QueryBaseToSQL(h, q, f) ==
  IF Len(h[q].tables) > 0
  THEN <<"FROM ">> \o JoinText(Map(LAMBDA t : TableToSQL(h, t, f), h[q].tables), ",")
  ELSE <<>>

SelectFieldToSQL(r, f) ==
  FlavorEscapeColumn(f, r.name) \o
  (IF TruthyString(r.alias) THEN <<" AS ">> \o FlavorEscapeColumn(f, r.alias[1]) ELSE <<>>)

SelectBaseQueryToSQL(h, q, f) ==
  LET columns == IF Len(h[q].fields) > 0
                 THEN JoinText(Map(LAMBDA r : SelectFieldToSQL(h[r], f), h[q].fields), ", ")
                 ELSE <<"*">>
  IN <<"SELECT ">> \o columns \o <<" ">> \o QueryBaseToSQL(h, q, f)

JoinsClause(h, q, f) ==
  IF Len(h[q].joins) > 0
  THEN <<" ">> \o JoinText(Map(LAMBDA j : JoinToSQL(h, j, f), h[q].joins), " ")
  ELSE <<>>

WhereClause(h, q, f) ==
  IF Len(h[q].where) > 0
  THEN <<" WHERE ">> \o JoinText(Map(LAMBDA w : ConditionToSQL(h[w], f), h[q].where), " AND ")
  ELSE <<>>

GroupByClause(h, q, f) ==
  IF Len(h[q].groupBy) > 0
  THEN <<" GROUP BY ">> \o JoinText(Map(LAMBDA c : FlavorEscapeColumn(f, c), h[q].groupBy), ", ")
  ELSE <<>>

HavingClause(h, q, f) ==
  IF Len(h[q].having) > 0
  THEN <<" HAVING ">> \o JoinText(Map(LAMBDA w : ConditionToSQL(h[w], f), h[q].having), " AND ")
  ELSE <<>>

OrderToSQL(o, f) == FlavorEscapeColumn(f, o.field) \o <<" ", o.direction>>

OrderByClause(h, q, f) ==
  IF Len(h[q].orderBy) > 0
  THEN <<" ORDER BY ">> \o JoinText(Map(LAMBDA o : OrderToSQL(h[o], f), h[q].orderBy), ", ")
  ELSE <<>>

LimitClause(h, q) ==
  IF TruthyNumber(h[q].limit) THEN <<" LIMIT ", ToString(h[q].limit[1])>> ELSE <<>>

OffsetClause(h, q) ==
  IF TruthyNumber(h[q].offset) THEN <<" OFFSET ", ToString(h[q].offset[1])>> ELSE <<>>

\* The statement with WHERE appended after GROUP BY.
StatementToSQLSwapped(h, q, f) ==
  SelectBaseQueryToSQL(h, q, f) \o JoinsClause(h, q, f) \o GroupByClause(h, q, f) \o
  WhereClause(h, q, f) \o HavingClause(h, q, f) \o OrderByClause(h, q, f) \o
  LimitClause(h, q) \o OffsetClause(h, q)

\* The statement before the unions are applied.
StatementToSQL(h, q, f) ==
  SelectBaseQueryToSQL(h, q, f) \o JoinsClause(h, q, f) \o WhereClause(h, q, f) \o
  GroupByClause(h, q, f) \o HavingClause(h, q, f) \o OrderByClause(h, q, f) \o
  LimitClause(h, q) \o OffsetClause(h, q)

\* A round that leaves out the parentheses.
UnionWrapBare(sql, type, other) == sql \o <<" ", type, " ">> \o other

\* One round of the forEach over _unionQueries.
UnionWrap(sql, type, other) == <<"(">> \o sql \o <<") ", type, " (">> \o other \o <<")">>

RECURSIVE ApplyUnions(_, _, _, _)
ApplyUnions(h, sql, unions, f) ==
  IF unions = <<>> THEN sql
  ELSE ApplyUnions(h,
                   UnionWrap(sql, Head(unions).type, SelectQueryToSQL(h, Head(unions).query, f)),
                   Tail(unions), f)

SelectQueryToSQL(h, q, f) == ApplyUnions(h, StatementToSQL(h, q, f), h[q].unionQueries, f)

\* toSQL() called without an argument.
ToSQLDefault(h, q) == SelectQueryToSQL(h, q, DefaultFlavor)

(***************************************************************************)
(* clone.                                                                  *)
(***************************************************************************)
TableClone(h, t) == New(h, Table(h[t].source, h[t].alias))

JoinClone(h, j) == New(h, Join(h[j].table, h[j].condition, h[j].type))

QueryBaseClone(h, q) ==
  Let(New(h, SelectQuery), LAMBDA c :
  Let(MapAlloc(TableClone, c.h, h[q].tables), LAMBDA ts :
  Let(MapAlloc(JoinClone, ts.h, h[q].joins), LAMBDA js :
  Res([js.h EXCEPT ![c.out] = [@ EXCEPT !.tables = ts.out, !.joins = js.out]], c.out))))

SelectBaseQueryClone(h, q) ==
  Let(QueryBaseClone(h, q), LAMBDA c :
  Res([c.h EXCEPT ![c.out] = [@ EXCEPT !.fields = h[q].fields]], c.out))

RECURSIVE SelectQueryClone(_, _)

UnionPairClone(h, u) ==
  Let(SelectQueryClone(h, u.query), LAMBDA c :
  Res(c.h, [query |-> c.out, type |-> u.type]))

SelectQueryClone(h, q) ==
  Let(SelectBaseQueryClone(h, q), LAMBDA c :
  Let(MapAlloc(UnionPairClone, c.h, h[q].unionQueries), LAMBDA us :
  Res([us.h EXCEPT ![c.out] =
         [@ EXCEPT !.where = h[q].where, !.having = h[q].having,
                   !.limit = h[q].limit, !.offset = h[q].offset,
                   !.orderBy = h[q].orderBy, !.groupBy = h[q].groupBy,
                   !.unionQueries = us.out]],
      c.out)))

(***************************************************************************)
(* The builder methods: each returns the new heap and the returned query.  *)
(***************************************************************************)
\* clone._field = v, for the clone c.out of the heap c.h
Assign(c, fld, v) ==
  Let(c, LAMBDA cl : Res([cl.h EXCEPT ![cl.out] = [@ EXCEPT ![fld] = v]], cl.out))

\* A push that puts the new elements in front.
PushFront(c, fld, vs) ==
  Let(c, LAMBDA cl : Res([cl.h EXCEPT ![cl.out] = [@ EXCEPT ![fld] = vs \o @]], cl.out))

\* clone._field.push(...vs)
Push(c, fld, vs) ==
  Let(c, LAMBDA cl : Res([cl.h EXCEPT ![cl.out] = [@ EXCEPT ![fld] = @ \o vs]], cl.out))

\* A from that pushes the new Table onto the table list.
fromAppend(h, q, source, alias) ==
  Let(SelectQueryClone(h, q), LAMBDA c :
  IF isSelectQuery(source)
  THEN Let(SelectQueryClone(c.h, source.ref), LAMBDA n :
       Let(New(n.h, Table(QuerySource(n.out), alias)), LAMBDA t :
       Push(Res(t.h, c.out), "tables", <<t.out>>)))
  ELSE Let(New(c.h, Table(source, alias)), LAMBDA t :
       Push(Res(t.h, c.out), "tables", <<t.out>>)))

from(h, q, source, alias) ==
  Let(SelectQueryClone(h, q), LAMBDA c :
  IF isSelectQuery(source)
  THEN Let(SelectQueryClone(c.h, source.ref), LAMBDA n :
       Let(New(n.h, Table(QuerySource(n.out), alias)), LAMBDA t :
       Assign(Res(t.h, c.out), "tables", <<t.out>>)))
  ELSE Let(New(c.h, Table(source, alias)), LAMBDA t :
       Assign(Res(t.h, c.out), "tables", <<t.out>>)))

join(h, q, tbl, condition, type) ==
  Let(SelectQueryClone(h, q), LAMBDA c :
  Let(New(c.h, Join(tbl, condition, Default(type, "INNER"))), LAMBDA j :
  Push(Res(j.h, c.out), "joins", <<j.out>>)))

innerJoin(h, q, tbl, condition) == join(h, q, tbl, condition, Some("INNER"))

leftJoin(h, q, tbl, condition) == join(h, q, tbl, condition, Some("LEFT"))

rightJoin(h, q, tbl, condition) == join(h, q, tbl, condition, Some("RIGHT"))

fullJoin(h, q, tbl, condition) == join(h, q, tbl, condition, Some("FULL"))

addFields(h, q, fs) == Push(SelectQueryClone(h, q), "fields", fs)

field(h, q, name, alias) ==
  Let(New(h, SelectField(name, alias)), LAMBDA r : addFields(r.h, q, <<r.out>>))

addField(h, q, name, alias) ==
  Let(New(h, SelectField(name, alias)), LAMBDA r : addFields(r.h, q, <<r.out>>))

\* A fields that adds the list to the projection instead of replacing it.
fieldsAppend(h, q, fs) == Push(SelectQueryClone(h, q), "fields", fs)

fields(h, q, fs) == Assign(SelectQueryClone(h, q), "fields", fs)

removeFields(h, q) == fields(h, q, <<>>)

\* A where that pushes onto the receiver's own array and returns the receiver.
whereInPlace(h, q, condition) == Res([h EXCEPT ![q].where = @ \o <<condition>>], q)

where(h, q, condition) == Push(SelectQueryClone(h, q), "where", <<condition>>)

having(h, q, condition) == Push(SelectQueryClone(h, q), "having", <<condition>>)

clearLimit(h, q) == Assign(SelectQueryClone(h, q), "limit", Undefined)

\* A limit that sets the bound on the receiver itself and returns the receiver.
limitInPlace(h, q, n) == Res([h EXCEPT ![q].limit = Some(n)], q)

limit(h, q, n) == Assign(SelectQueryClone(h, q), "limit", Some(n))

clearOffset(h, q) == Assign(SelectQueryClone(h, q), "offset", Undefined)

offset(h, q, n) == Assign(SelectQueryClone(h, q), "offset", Some(n))

orderBy(h, q, f, direction) ==
  Let(SelectQueryClone(h, q), LAMBDA c :
  Let(New(c.h, Order(f, Default(direction, "ASC"))), LAMBDA o :
  Push(Res(o.h, c.out), "orderBy", <<o.out>>)))

removeOrderBy(h, q) == Assign(SelectQueryClone(h, q), "orderBy", <<>>)

groupBy(h, q, fs) == Push(SelectQueryClone(h, q), "groupBy", fs)

removeGroupBy(h, q) == Assign(SelectQueryClone(h, q), "groupBy", <<>>)

union(h, q, query, type) ==
  Push(SelectQueryClone(h, q), "unionQueries",
       <<[query |-> query, type |-> Default(type, UnionType_UNION)]>>)

(***************************************************************************)
(* What a call gives back: a value, or a thrown Error with its message.    *)
(***************************************************************************)
Return(v) == [thrown |-> FALSE, error |-> <<>>, value |-> v]

Throw(message) == [thrown |-> TRUE, error |-> message, value |-> 0]

\* The outcomes of xs.map(...): the first throw, else the values in order.
RECURSIVE Collect(_)
Collect(outcomes) ==
  IF outcomes = <<>> THEN Return(<<>>)
  ELSE IF Head(outcomes).thrown THEN Head(outcomes)
  ELSE Let(Collect(Tail(outcomes)), LAMBDA rest :
       IF rest.thrown THEN rest ELSE Return(<<Head(outcomes).value>> \o rest.value))

\* [...a, ...b] of two outcomes holding arrays: a is evaluated first.
Spread(a, b) ==
  Let(a, LAMBDA x :
  IF x.thrown THEN x
  ELSE Let(b, LAMBDA y : IF y.thrown THEN y ELSE Return(x.value \o y.value)))

\* Array.from(new Set(xs)): the first occurrence of each element, in order.
RECURSIVE Dedupe(_)
Dedupe(xs) ==
  IF xs = <<>> THEN <<>>
  ELSE Let(Dedupe(SubSeq(xs, 1, Len(xs) - 1)), LAMBDA front :
       IF \E i \in 1..Len(front) : front[i] = xs[Len(xs)]
       THEN front
       ELSE Append(front, xs[Len(xs)]))

(***************************************************************************)
(* The accessors.                                                          *)
(***************************************************************************)
\* A getter that gives back a default instead of throwing.
tableOrDefault(h, q) == IF Len(h[q].tables) = 0 THEN Return(0) ELSE Return(h[q].tables[1])

\* get table()
table(h, q) ==
  IF Len(h[q].tables) = 0 THEN Throw(<<"No table defined">>)
  ELSE Return(h[q].tables[1])

RECURSIVE TableGetTableName(_, _)
TableGetTableName(h, t) ==
  IF ~isSelectQuery(h[t].source) THEN Return(h[t].source.name)
  ELSE Let(table(h, h[t].source.ref), LAMBDA first :
       IF first.thrown THEN first ELSE TableGetTableName(h, first.value))

JoinGetTableName(h, j) == TableGetTableName(h, h[j].table)

QueryBaseGetTableNames(h, q) ==
  Spread(Collect(Map(LAMBDA t : TableGetTableName(h, t), h[q].tables)),
         Collect(Map(LAMBDA j : JoinGetTableName(h, j), h[q].joins)))

RECURSIVE SelectQueryGetTableNames(_, _)

\* this._unionQueries.reduce((acc, u) => [...acc, ...u.query.getTableNames()], [])
RECURSIVE ReduceUnionNames(_, _, _)
ReduceUnionNames(h, acc, unions) ==
  IF unions = <<>> THEN acc
  ELSE Let(Spread(acc, SelectQueryGetTableNames(h, Head(unions).query)), LAMBDA next :
       IF next.thrown THEN next ELSE ReduceUnionNames(h, next, Tail(unions)))

SelectQueryGetTableNames(h, q) ==
  Let(Spread(QueryBaseGetTableNames(h, q),
             ReduceUnionNames(h, Return(<<>>), h[q].unionQueries)), LAMBDA all :
  IF all.thrown THEN all ELSE Return(Dedupe(all.value)))

(***************************************************************************)
(* JSON values.  A value of toJSON() may hold live objects: the _fields    *)
(* and _orderBy arrays (identities of records) and a Table's SelectQuery   *)
(* source (an instance).  The `source` member of a Table value is one of:  *)
(*   a string; a SelectQuery instance; a plain object (after JSON.parse).  *)
(***************************************************************************)
JString(name) == [tag |-> "string", name |-> name, ref |-> 0, json |-> <<>>]

JInstance(q) == [tag |-> "instance", name |-> "", ref |-> q, json |-> <<>>]

JObject(json) == [tag |-> "object", name |-> "", ref |-> 0, json |-> <<json>>]

\* Condition.toJSON / Condition.fromJSON
ConditionToJSON(c) == [type |-> c.type, key |-> c.key, value |-> c.value]

ConditionFromJSON(h, json) == New(h, Condition(json.type, json.key, json.value))

TableToJSON(h, t) ==
  [type |-> "Table",
   source |-> IF isSelectQuery(h[t].source) THEN JInstance(h[t].source.ref)
              ELSE JString(h[t].source.name),
   alias |-> h[t].alias]

JoinToJSON(h, j) ==
  [type |-> "Join",
   table |-> TableToJSON(h, h[j].table),
   condition |-> IF h[j].condition = Undefined THEN Undefined
                 ELSE Some(ConditionToJSON(h[h[j].condition[1]])),
   joinType |-> h[j].type]

RECURSIVE SelectQueryToJSON(_, _)
SelectQueryToJSON(h, q) ==
  [type |-> "SelectQuery",
   tables |-> Map(LAMBDA t : TableToJSON(h, t), h[q].tables),
   unionQueries |-> Map(LAMBDA u : [type |-> u.type, query |-> SelectQueryToJSON(h, u.query)],
                        h[q].unionQueries),
   joins |-> Map(LAMBDA j : JoinToJSON(h, j), h[q].joins),
   fields |-> h[q].fields,
   where |-> Map(LAMBDA c : ConditionToJSON(h[c]), h[q].where),
   having |-> Map(LAMBDA c : ConditionToJSON(h[c]), h[q].having),
   limit |-> h[q].limit,
   offset |-> h[q].offset,
   orderBy |-> h[q].orderBy,
   groupBy |-> h[q].groupBy]

(***************************************************************************)
(* fromJSON.                                                               *)
(***************************************************************************)
RECURSIVE SelectQueryFromJSON(_, _)

\* A fromJSON that forgets the alias.
TableFromJSONNoAlias(h, json) == New(h, Table(StringSource(json.source.name), Undefined))

TableFromJSON(h, json) ==
  IF json.source.tag = "object" /\ json.source.json[1].type = "SelectQuery"
  THEN Let(SelectQueryFromJSON(h, json.source.json[1]), LAMBDA q :
       New(q.h, Table(QuerySource(q.out), json.alias)))
  ELSE IF json.source.tag = "instance"
  THEN New(h, Table(QuerySource(json.source.ref), json.alias))
  ELSE New(h, Table(StringSource(json.source.name), json.alias))

JoinFromJSON(h, json) ==
  Let(TableFromJSON(h, json.table), LAMBDA t :
  Let(IF json.condition # Undefined
      THEN Let(ConditionFromJSON(t.h, json.condition[1]), LAMBDA n : Res(n.h, Some(n.out)))
      ELSE Res(t.h, Undefined), LAMBDA c :
  New(c.h, Join(t.out, c.out, json.joinType))))

UnionPairFromJSON(h, u) ==
  Let(SelectQueryFromJSON(h, u.query), LAMBDA q :
  Res(q.h, [type |-> u.type, query |-> q.out]))

SelectQueryFromJSON(h, json) ==
  Let(New(h, SelectQuery), LAMBDA query :
  Let(MapAlloc(TableFromJSON, query.h, json.tables), LAMBDA ts :
  Let(MapAlloc(UnionPairFromJSON, ts.h, json.unionQueries), LAMBDA us :
  Let(MapAlloc(JoinFromJSON, us.h, json.joins), LAMBDA js :
  Let(MapAlloc(ConditionFromJSON, js.h, json.where), LAMBDA ws :
  Let(MapAlloc(ConditionFromJSON, ws.h, json.having), LAMBDA hs :
  Res([hs.h EXCEPT ![query.out] =
         [@ EXCEPT !.tables = ts.out, !.unionQueries = us.out, !.joins = js.out,
                   !.fields = json.fields, !.where = ws.out, !.having = hs.out,
                   !.limit = json.limit, !.offset = json.offset,
                   !.orderBy = json.orderBy, !.groupBy = json.groupBy]],
      query.out)))))))

(***************************************************************************)
(* JSON text.  A text is a document (the tree JSON.stringify writes) or a  *)
(* malformed text with the reason JSON.parse gives for rejecting it.       *)
(* JSON.stringify leaves out the members whose value is undefined, which   *)
(* JSON.parse reads back as undefined: a document keeps them as Undefined. *)
(* It calls toJSON() on a SelectQuery instance it meets and writes a       *)
(* record of the heap by value.                                            *)
(***************************************************************************)
RECURSIVE StringifySelectQuery(_, _)

StringifyTable(h, json) ==
  [type |-> "Table",
   source |-> IF json.source.tag = "instance"
              THEN JObject(StringifySelectQuery(h, SelectQueryToJSON(h, json.source.ref)))
              ELSE IF json.source.tag = "object"
              THEN JObject(StringifySelectQuery(h, json.source.json[1]))
              ELSE json.source,
   alias |-> json.alias]

StringifyJoin(h, json) == [json EXCEPT !.table = StringifyTable(h, json.table)]

StringifySelectQuery(h, json) ==
  [json EXCEPT
     !.tables = Map(LAMBDA t : StringifyTable(h, t), json.tables),
     !.unionQueries = Map(LAMBDA u : [type |-> u.type,
                                       query |-> StringifySelectQuery(h, u.query)],
                          json.unionQueries),
     !.joins = Map(LAMBDA j : StringifyJoin(h, j), json.joins),
     !.fields = Map(LAMBDA r : [name |-> h[r].name, alias |-> h[r].alias], json.fields),
     !.orderBy = Map(LAMBDA o : [field |-> h[o].field, direction |-> h[o].direction],
                     json.orderBy)]

WellFormed(doc) == [wellFormed |-> TRUE, doc |-> doc, reason |-> ""]

Malformed(reason) == [wellFormed |-> FALSE, doc |-> <<>>, reason |-> reason]

\* JSON.parse of a document: the plain objects of its arrays are allocated.
RECURSIVE ParseSelectQuery(_, _)

ParseTable(h, doc) ==
  IF doc.source.tag = "object"
  THEN Let(ParseSelectQuery(h, doc.source.json[1]), LAMBDA q :
       Res(q.h, [doc EXCEPT !.source = JObject(q.out)]))
  ELSE Res(h, doc)

ParseJoin(h, doc) ==
  Let(ParseTable(h, doc.table), LAMBDA t : Res(t.h, [doc EXCEPT !.table = t.out]))

ParseUnionPair(h, doc) ==
  Let(ParseSelectQuery(h, doc.query), LAMBDA q :
  Res(q.h, [type |-> doc.type, query |-> q.out]))

ParseSelectQuery(h, doc) ==
  Let(MapAlloc(ParseTable, h, doc.tables), LAMBDA ts :
  Let(MapAlloc(ParseUnionPair, ts.h, doc.unionQueries), LAMBDA us :
  Let(MapAlloc(ParseJoin, us.h, doc.joins), LAMBDA js :
  Let(MapAlloc(LAMBDA hh, r : New(hh, SelectField(r.name, r.alias)), js.h, doc.fields), LAMBDA fs :
  Let(MapAlloc(LAMBDA hh, o : New(hh, Order(o.field, o.direction)), fs.h, doc.orderBy), LAMBDA os :
  Res(os.h, [doc EXCEPT !.tables = ts.out, !.unionQueries = us.out, !.joins = js.out,
                        !.fields = fs.out, !.orderBy = os.out]))))))

(***************************************************************************)
(* Mutations (Query.delete, Query.update, Query.insert) and their JSON.    *)
(***************************************************************************)
MutationKinds == {"DeleteMutation", "InsertMutation", "UpdateMutation"}

Mutation(kind, name, alias) == [kind |-> kind, table |-> name, alias |-> alias]

MutationToJSON(m) == [type |-> m.kind, table |-> m.table, alias |-> m.alias]

MutationFromJSON(h, json) == New(h, Mutation(json.type, json.table, json.alias))

MutationToSQL(m, f) ==
  (CASE m.kind = "DeleteMutation" -> <<"DELETE FROM ">>
     [] m.kind = "InsertMutation" -> <<"INSERT INTO ">>
     [] m.kind = "UpdateMutation" -> <<"UPDATE ">>) \o
  FlavorEscapeTable(f, m.table) \o
  (IF TruthyString(m.alias) THEN <<" AS ">> \o FlavorEscapeColumn(f, m.alias[1]) ELSE <<>>)

(***************************************************************************)
(* serialize / deserialize.                                                *)
(***************************************************************************)
\* parsed.type
TypeTag(doc) == IF "type" \in DOMAIN doc THEN Some(doc.type) ELSE Undefined

TableSerialize(h, t) == WellFormed(StringifyTable(h, TableToJSON(h, t)))

JoinSerialize(h, j) == WellFormed(StringifyJoin(h, JoinToJSON(h, j)))

SelectQuerySerialize(h, q) == WellFormed(StringifySelectQuery(h, SelectQueryToJSON(h, q)))

MutationSerialize(h, m) == WellFormed(MutationToJSON(h[m]))

\* node.serialize() for any node of the heap that has it
Serialize(h, n) ==
  CASE h[n].kind = "Table" -> TableSerialize(h, n)
    [] h[n].kind = "Join" -> JoinSerialize(h, n)
    [] h[n].kind = "SelectQuery" -> SelectQuerySerialize(h, n)
    [] h[n].kind \in MutationKinds -> MutationSerialize(h, n)

\* JSON.parse(text): the parsed value, or a thrown SyntaxError / TypeError
JSONParse(h, text) ==
  IF ~text.wellFormed THEN Res(h, Throw(<<text.reason>>))
  ELSE Let(TypeTag(text.doc), LAMBDA tag :
       Let(CASE tag = Some("SelectQuery") -> ParseSelectQuery(h, text.doc)
             [] tag = Some("Table") -> ParseTable(h, text.doc)
             [] tag = Some("Join") -> ParseJoin(h, text.doc)
             [] OTHER -> Res(h, text.doc), LAMBDA p :
       Res(p.h, Return(p.out))))

\* the object r.out of the heap r.h, returned
Returned(r) == Let(r, LAMBDA x : Res(x.h, Return(x.out)))

\* Table.deserialize(json)
TableDeserialize(h, text) ==
  Let(JSONParse(h, text), LAMBDA p :
  IF p.out.thrown THEN p ELSE Returned(TableFromJSON(p.h, p.out.value)))

\* Join.deserialize(json)
JoinDeserialize(h, text) ==
  Let(JSONParse(h, text), LAMBDA p :
  IF p.out.thrown THEN p ELSE Returned(JoinFromJSON(p.h, p.out.value)))

\* The body of the try block of Query.deserialize.
DeserializeSwitch(h, text) ==
  Let(JSONParse(h, text), LAMBDA p :
  IF p.out.thrown THEN p
  ELSE IF "null" \in DOMAIN p.out.value
  THEN Res(h, Throw(<<"Cannot read properties of null (reading 'type')">>))
  ELSE Let(TypeTag(p.out.value), LAMBDA tag :
       CASE tag = Some("SelectQuery") -> Returned(SelectQueryFromJSON(p.h, p.out.value))
         [] tag = Some("DeleteMutation") -> Returned(MutationFromJSON(p.h, p.out.value))
         [] tag = Some("InsertMutation") -> Returned(MutationFromJSON(p.h, p.out.value))
         [] tag = Some("UpdateMutation") -> Returned(MutationFromJSON(p.h, p.out.value))
         [] OTHER -> Res(h, Throw(<<"Unknown mutation type">>))))

\* A deserialize that answers a failure with an empty query.
deserializeLenient(h, text) ==
  Let(DeserializeSwitch(h, text), LAMBDA r :
  IF r.out.thrown THEN Returned(New(h, SelectQuery)) ELSE r)

\* Query.deserialize(json)
deserialize(h, text) ==
  Let(DeserializeSwitch(h, text), LAMBDA r :
  IF r.out.thrown
  THEN Res(h, Throw(<<"Error parsing query: ">> \o r.out.error))
  ELSE r)

(***************************************************************************)
(* The client.  Arguments are drawn from small sets.                       *)
(***************************************************************************)
TableNames == {"t", "u"}

TableAliases == {Undefined, Some("x")}

\* also the empty alias, for a nested source
NestedAliases == {Undefined, Some(""), Some("x")}

FieldArgs == {SelectField("id", Undefined), SelectField("name", Some("n"))}

FieldListArgs == {<<SelectField("id", Undefined)>>,
                  <<SelectField("name", Some("n")), SelectField("id", Undefined)>>}

ConditionArgs == {Condition("EQUAL", "id", 1), Condition("NULL", "name", 0)}

OrderArgs == {[field |-> "id", direction |-> Undefined],
              [field |-> "name", direction |-> Some("DESC")]}

GroupArgs == {<<"id">>, <<"name", "id">>}

\* A stored query with every clause populated, as serialize() writes it:
\* SELECT id, name AS n FROM t,u AS x WHERE id = 1 GROUP BY id HAVING name IS NULL
\* ORDER BY name DESC LIMIT 1 OFFSET 1
StoredFull ==
  [type |-> "SelectQuery",
   tables |-> <<[type |-> "Table", source |-> JString("t"), alias |-> Undefined],
                [type |-> "Table", source |-> JString("u"), alias |-> Some("x")]>>,
   unionQueries |-> <<>>,
   joins |-> <<>>,
   fields |-> <<[name |-> "id", alias |-> Undefined], [name |-> "name", alias |-> Some("n")]>>,
   where |-> <<[type |-> "EQUAL", key |-> "id", value |-> 1]>>,
   having |-> <<[type |-> "NULL", key |-> "name", value |-> 0]>>,
   limit |-> Some(1),
   offset |-> Some(1),
   orderBy |-> <<[field |-> "name", direction |-> "DESC"]>>,
   groupBy |-> <<"id">>]

\* SELECT * FROM u LIMIT 1
StoredSmall ==
  [type |-> "SelectQuery",
   tables |-> <<[type |-> "Table", source |-> JString("u"), alias |-> Undefined]>>,
   unionQueries |-> <<>>, joins |-> <<>>, fields |-> <<>>, where |-> <<>>,
   having |-> <<>>, limit |-> Some(1), offset |-> Undefined, orderBy |-> <<>>,
   groupBy |-> <<>>]

\* (SELECT * FROM (SELECT * FROM u LIMIT 1) AS t LEFT JOIN u AS x ON id = 1)
\* UNION ALL (SELECT * FROM u LIMIT 1)
StoredNested ==
  [type |-> "SelectQuery",
   tables |-> <<[type |-> "Table", source |-> JObject(StoredSmall), alias |-> Undefined]>>,
   unionQueries |-> <<[type |-> UnionType_UNION_ALL, query |-> StoredSmall]>>,
   joins |-> <<[type |-> "Join",
                table |-> [type |-> "Table", source |-> JString("u"), alias |-> Some("x")],
                condition |-> Some([type |-> "EQUAL", key |-> "id", value |-> 1]),
                joinType |-> "LEFT"]>>,
   fields |-> <<>>, where |-> <<>>, having |-> <<>>, limit |-> Undefined,
   offset |-> Undefined, orderBy |-> <<>>, groupBy |-> <<>>]

\* Texts that are no serialized node: two malformed texts, an unknown tag, a
\* value without a `type` member, and the text "null".
BadTexts == {Malformed("Unexpected end of JSON input"),
             Malformed("Unexpected token } in JSON at position 1"),
             WellFormed([type |-> "Bogus"]),
             WellFormed([members |-> 0]),
             WellFormed([null |-> TRUE])}

Nodes(h, kinds) == {n \in 1..Len(h) : h[n].kind \in kinds}

Queries(h) == Nodes(h, {"SelectQuery"})

Builders == {"from", "join", "innerJoin", "leftJoin", "rightJoin", "fullJoin",
             "field", "addField", "addFields", "fields", "removeFields",
             "where", "having", "limit", "clearLimit", "offset", "clearOffset",
             "orderBy", "removeOrderBy", "groupBy", "removeGroupBy", "union"}

CallRecord(op, recv, arg, type, text, outcome) ==
  [op |-> op, recv |-> recv, arg |-> arg, type |-> type, text |-> text, args |-> <<>>,
   thrown |-> outcome.thrown, error |-> outcome.error, value |-> outcome.value]

\* A call that may allocate: r holds the heap it leaves and its outcome.
CallText(op, recv, arg, type, text, r) ==
  /\ calls < MaxCalls
  /\ \E x \in {r} :
       /\ heap' = x.h
       /\ ret' = CallRecord(op, recv, arg, type, text, x.out)
  /\ calls' = calls + 1

\* A call that returns the object r.out.
Call(op, recv, arg, type, r) == CallText(op, recv, arg, type, <<>>, Returned(r))

\* A call that returns the object r.out, with its further arguments on record.
CallArgs(op, recv, arg, type, args, r) ==
  /\ calls < MaxCalls
  /\ \E x \in {r} :
       /\ heap' = x.h
       /\ ret' = [CallRecord(op, recv, arg, type, <<>>, Return(x.out)) EXCEPT !.args = args]
  /\ calls' = calls + 1

\* A call that only reads.
Read(op, recv, outcome) == CallText(op, recv, 0, Undefined, <<>>, Res(heap, outcome))

Init ==
  /\ heap = <<>>
  /\ ret = CallRecord("", 0, 0, Undefined, <<>>, Return(0))
  /\ calls = 0

\* Query.select()
Select ==
  /\ calls < MaxCalls
  /\ Call("select", 0, 0, Undefined, New(heap, SelectQuery))

\* Query.deserialize(text) of a stored query
Load ==
  /\ calls < MaxCalls
  /\ \E text \in {WellFormed(StoredFull), WellFormed(StoredNested)} :
       CallText("deserialize", 0, 0, Undefined, text, deserialize(heap, text))

\* q.from(name, alias)
From ==
  \E q \in Queries(heap), name \in TableNames, alias \in TableAliases :
    CallArgs("from", q, 0, Undefined, [source |-> StringSource(name), alias |-> alias],
             from(heap, q, StringSource(name), alias))

\* q.from(query, alias)
FromQuery ==
  \E q \in Queries(heap), query \in Queries(heap), alias \in NestedAliases :
    CallArgs("from", q, query, Undefined, [source |-> QuerySource(query), alias |-> alias],
             from(heap, q, QuerySource(query), alias))

\* q.join(Query.table(name), condition?, type?), with and without a condition
JoinTable ==
  \E q \in Queries(heap),
     condition \in {Undefined, Some(Condition("EQUAL", "id", 1))},
     type \in {Undefined} \cup {Some("INNER"), Some("LEFT"), Some("RIGHT"), Some("FULL")} :
    LET t == New(heap, Table(StringSource("u"), Undefined))
        c == IF condition = Undefined THEN Res(t.h, Undefined)
             ELSE LET n == New(t.h, condition[1]) IN Res(n.h, Some(n.out))
    IN CallArgs("join", q, t.out, type, [condition |-> c.out],
                join(c.h, q, t.out, c.out, type))

\* q.join(new Table(query, alias)): a nested source joined without a condition
JoinQuery ==
  \E q \in Queries(heap), query \in Queries(heap), alias \in TableAliases :
    LET t == New(heap, Table(QuerySource(query), alias))
    IN CallArgs("join", q, t.out, Undefined, [condition |-> Undefined],
                join(t.h, q, t.out, Undefined, Undefined))

\* q.innerJoin / leftJoin / rightJoin / fullJoin (Query.table(name, alias), condition)
JoinAs ==
  \E q \in Queries(heap), m \in {"innerJoin", "leftJoin", "rightJoin", "fullJoin"} :
    LET t == New(heap, Table(StringSource("u"), Some("x")))
        c == New(t.h, Condition("EQUAL", "id", 1))
    IN CallArgs(m, q, t.out, Undefined, [condition |-> Some(c.out)],
            CASE m = "innerJoin" -> innerJoin(c.h, q, t.out, Some(c.out))
              [] m = "leftJoin" -> leftJoin(c.h, q, t.out, Some(c.out))
              [] m = "rightJoin" -> rightJoin(c.h, q, t.out, Some(c.out))
              [] m = "fullJoin" -> fullJoin(c.h, q, t.out, Some(c.out)))

\* q.field(name, alias)
Field ==
  \E q \in Queries(heap), a \in FieldArgs :
    CallArgs("field", q, 0, Undefined, a, field(heap, q, a.name, a.alias))

\* q.addField(name, alias)
AddField ==
  \E q \in Queries(heap), a \in FieldArgs :
    CallArgs("addField", q, 0, Undefined, a, addField(heap, q, a.name, a.alias))

\* q.addFields([{name, alias}, ...])
AddFields ==
  \E q \in Queries(heap), list \in FieldListArgs :
    LET fs == MapAlloc(New, heap, list)
    IN CallArgs("addFields", q, 0, Undefined, fs.out, addFields(fs.h, q, fs.out))

\* q.fields([{name, alias}, ...])
Fields ==
  \E q \in Queries(heap), list \in FieldListArgs :
    LET fs == MapAlloc(New, heap, list)
    IN CallArgs("fields", q, 0, Undefined, fs.out, fields(fs.h, q, fs.out))

\* q.removeFields()
RemoveFields == \E q \in Queries(heap) : Call("removeFields", q, 0, Undefined, removeFields(heap, q))

\* q.where(Conditions.equal(...)) and q.where(Conditions.null(...))
Where ==
  \E q \in Queries(heap), condition \in ConditionArgs :
    LET c == New(heap, condition)
    IN Call("where", q, c.out, Undefined, where(c.h, q, c.out))

\* q.having(...)
Having ==
  \E q \in Queries(heap), condition \in ConditionArgs :
    LET c == New(heap, condition)
    IN Call("having", q, c.out, Undefined, having(c.h, q, c.out))

Limit ==
  \E q \in Queries(heap), n \in 0..MaxBound :
    CallArgs("limit", q, 0, Undefined, <<n>>, limit(heap, q, n))

ClearLimit == \E q \in Queries(heap) : Call("clearLimit", q, 0, Undefined, clearLimit(heap, q))

Offset ==
  \E q \in Queries(heap), n \in 0..MaxBound :
    CallArgs("offset", q, 0, Undefined, <<n>>, offset(heap, q, n))

ClearOffset == \E q \in Queries(heap) : Call("clearOffset", q, 0, Undefined, clearOffset(heap, q))

\* q.orderBy(field, direction?)
OrderBy ==
  \E q \in Queries(heap), a \in OrderArgs :
    CallArgs("orderBy", q, 0, Undefined, a, orderBy(heap, q, a.field, a.direction))

RemoveOrderBy == \E q \in Queries(heap) : Call("removeOrderBy", q, 0, Undefined, removeOrderBy(heap, q))

\* q.groupBy(...fields)
GroupBy ==
  \E q \in Queries(heap), fs \in GroupArgs :
    CallArgs("groupBy", q, 0, Undefined, fs, groupBy(heap, q, fs))

RemoveGroupBy == \E q \in Queries(heap) : Call("removeGroupBy", q, 0, Undefined, removeGroupBy(heap, q))

\* q.union(query, type?)
Union ==
  \E q \in Queries(heap), query \in Queries(heap), type \in {Undefined, Some(UnionType_UNION), Some(UnionType_UNION_ALL)} :
    Call("union", q, query, type, union(heap, q, query, type))

\* q.clone()
Clone == \E q \in Queries(heap) : Call("clone", q, 0, Undefined, SelectQueryClone(heap, q))

\* q.table
GetTable == \E q \in Queries(heap) : Read("table", q, table(heap, q))

\* q.getTableNames()
GetTableNames == \E q \in Queries(heap) : Read("getTableNames", q, SelectQueryGetTableNames(heap, q))

\* t.getTableName()
GetTableName == \E t \in Nodes(heap, {"Table"}) : Read("getTableName", t, TableGetTableName(heap, t))

\* Query.delete(from), Query.update(table), Query.insert(into)
NewMutation ==
  /\ calls < MaxCalls
  /\ \E kind \in MutationKinds :
       Call(kind, 0, 0, Undefined, New(heap, Mutation(kind, "t", Undefined)))

\* Query.table(name, alias) and new Table(query, alias)
NewTable ==
  \/ /\ calls < MaxCalls
     /\ \E alias \in TableAliases :
          Call("Table", 0, 0, Undefined, New(heap, Table(StringSource("t"), alias)))
  \/ \E query \in Queries(heap) :
       Call("Table", 0, query, Undefined, New(heap, Table(QuerySource(query), Undefined)))

\* Query.deserialize(text) of a text that is no serialized node
DeserializeBad ==
  /\ calls < MaxCalls
  /\ \E text \in BadTexts :
       CallText("deserialize", 0, 0, Undefined, text, deserialize(heap, text))

\* Query.deserialize(n.serialize())
DeserializeNode ==
  \E n \in Nodes(heap, {"SelectQuery", "Table", "Join"} \cup MutationKinds) :
    CallText("deserialize", 0, n, Undefined, Serialize(heap, n), deserialize(heap, Serialize(heap, n)))

\* Table.deserialize(t.serialize()) and Join.deserialize(j.serialize())
DeserializeOwn ==
  \/ \E t \in Nodes(heap, {"Table"}) :
       CallText("Table.deserialize", 0, t, Undefined, TableSerialize(heap, t),
                TableDeserialize(heap, TableSerialize(heap, t)))
  \/ \E j \in Nodes(heap, {"Join"}) :
       CallText("Join.deserialize", 0, j, Undefined, JoinSerialize(heap, j),
                JoinDeserialize(heap, JoinSerialize(heap, j)))

\* X.fromJSON(n.toJSON())
FromJSON ==
  \/ \E q \in Queries(heap) :
       Call("fromJSON", 0, q, Undefined, SelectQueryFromJSON(heap, SelectQueryToJSON(heap, q)))
  \/ \E t \in Nodes(heap, {"Table"}) :
       Call("fromJSON", 0, t, Undefined, TableFromJSON(heap, TableToJSON(heap, t)))
  \/ \E j \in Nodes(heap, {"Join"}) :
       Call("fromJSON", 0, j, Undefined, JoinFromJSON(heap, JoinToJSON(heap, j)))

\* The builder protocol.
Next ==
  \/ Select \/ Load \/ From \/ FromQuery \/ JoinTable \/ JoinQuery \/ JoinAs
  \/ Field \/ AddField \/ AddFields \/ Fields \/ RemoveFields
  \/ Where \/ Having \/ Limit \/ ClearLimit \/ Offset \/ ClearOffset
  \/ OrderBy \/ RemoveOrderBy \/ GroupBy \/ RemoveGroupBy \/ Union \/ Clone

Spec == Init /\ [][Next]_vars

\* The accessors, on queries with plain and nested sources, joins and unions.
NextRead ==
  \/ Select \/ Load \/ From \/ FromQuery \/ JoinQuery \/ Union
  \/ GetTable \/ GetTableNames \/ GetTableName

SpecRead == Init /\ [][NextRead]_vars

\* Serialization of what the builder and the factories make.
NextJSON ==
  \/ Select \/ Load \/ FromQuery \/ JoinTable \/ JoinQuery \/ Limit \/ Union
  \/ NewMutation \/ NewTable
  \/ DeserializeBad \/ DeserializeNode \/ DeserializeOwn \/ FromJSON

SpecJSON == Init /\ [][NextJSON]_vars

(***************************************************************************)
(* What a client can observe of a node.                                    *)
(***************************************************************************)
\* n.toSQL(f), for any node that has it
NodeToSQL(h, n, f) ==
  CASE h[n].kind = "SelectQuery" -> SelectQueryToSQL(h, n, f)
    [] h[n].kind = "Table" -> TableToSQL(h, n, f)
    [] h[n].kind = "Join" -> JoinToSQL(h, n, f)
    [] h[n].kind \in MutationKinds -> MutationToSQL(h[n], f)

\* q.toSQL(f) for every flavor, q.toJSON() and q.serialize()
View(h, q) ==
  [sql |-> [f \in Flavors |-> SelectQueryToSQL(h, q, f)],
   json |-> SelectQueryToJSON(h, q),
   text |-> SelectQuerySerialize(h, q)]

\* part occurs in sql as a run of consecutive pieces
Contains(sql, part) ==
  \E i \in 1..(Len(sql) - Len(part) + 1) : SubSeq(sql, i, i + Len(part) - 1) = part

\* The clause keywords, in the order of the SQL grammar.
ClauseKeywords ==
  <<"SELECT ", "FROM ", " JOIN ", " WHERE ", " GROUP BY ", " HAVING ", " ORDER BY ",
    " LIMIT ", " OFFSET ">>

Rank(k) == CHOOSE i \in DOMAIN ClauseKeywords : ClauseKeywords[i] = k

\* How many parentheses are open before piece i.
Depth(sql, i) ==
  Cardinality({j \in 1..(i - 1) : sql[j] \in {"(", " ("}}) -
  Cardinality({j \in 1..(i - 1) : sql[j] \in {")", ") "}})

\* The positions of the keywords of the statement itself: those outside every
\* parenthesis, so neither in a nested source nor in a member of a union.
KeywordPositions(sql) ==
  {i \in DOMAIN sql : (\E k \in DOMAIN ClauseKeywords : ClauseKeywords[k] = sql[i])
                      /\ Depth(sql, i) = 0}

InGrammarOrder(sql) ==
  LET at == KeywordPositions(sql)
  IN \A i, j \in at : i < j => Rank(sql[i]) <= Rank(sql[j])

\* no keyword other than those of the set repeatable occurs twice
AtMostOnce(sql, repeatable) ==
  LET at == KeywordPositions(sql)
  IN \A i, j \in at : (i < j /\ sql[i] \notin repeatable) => sql[i] # sql[j]

\* The objects a node refers to, and all it reaches through them.
Refs(h, n) ==
  CASE h[n].kind = "SelectQuery" ->
         {h[n].tables[i] : i \in DOMAIN h[n].tables} \cup
         {h[n].joins[i] : i \in DOMAIN h[n].joins} \cup
         {h[n].fields[i] : i \in DOMAIN h[n].fields} \cup
         {h[n].where[i] : i \in DOMAIN h[n].where} \cup
         {h[n].having[i] : i \in DOMAIN h[n].having} \cup
         {h[n].orderBy[i] : i \in DOMAIN h[n].orderBy} \cup
         {h[n].unionQueries[i].query : i \in DOMAIN h[n].unionQueries}
    [] h[n].kind = "Table" -> IF h[n].source.isQuery THEN {h[n].source.ref} ELSE {}
    [] h[n].kind = "Join" ->
         {h[n].table} \cup (IF h[n].condition = Undefined THEN {} ELSE {h[n].condition[1]})
    [] OTHER -> {}

RECURSIVE Reach(_, _)
Reach(h, n) == Refs(h, n) \cup UNION {Reach(h, k) : k \in Refs(h, n)}

\* The chain of nested sources behind table t ends in a query without a table.
RECURSIVE NoTableBehind(_, _)
NoTableBehind(h, t) ==
  /\ h[t].source.isQuery
  /\ \/ Len(h[h[t].source.ref].tables) = 0
     \/ NoTableBehind(h, h[h[t].source.ref].tables[1])

\* Some table or join of q, or of a member of its unions, has no table behind it.
RECURSIVE NoTableIn(_, _)
NoTableIn(h, q) ==
  \/ \E i \in DOMAIN h[q].tables : NoTableBehind(h, h[q].tables[i])
  \/ \E i \in DOMAIN h[q].joins : NoTableBehind(h, h[h[q].joins[i]].table)
  \/ \E i \in DOMAIN h[q].unionQueries : NoTableIn(h, h[q].unionQueries[i].query)

(***************************************************************************)
(* The properties.                                                         *)
(***************************************************************************)
\* C1: every builder call returns a query that did not exist before the call,
\* and leaves toSQL(f), toJSON() and serialize() of every query that existed
\* before it (the receiver, its base, the other branches) exactly as they were.
C1_ReceiverImmutable ==
  [][ret'.op \in Builders =>
       /\ ret'.value \in Queries(heap') \ Queries(heap)
       /\ ret'.value > Len(heap)
       /\ \A q \in Queries(heap) : q \in Queries(heap') /\ View(heap', q) = View(heap, q)]_vars

\* C1: two branches were built from the base select(): from("t") and limit(1).
C1_Witness ==
  /\ ret.op = "limit"
  /\ ret.recv = 1
  /\ ToSQLDefault(heap, 1) = <<"SELECT ", "*", " ">>
  /\ ToSQLDefault(heap, ret.value) = <<"SELECT ", "*", " ", " LIMIT ", "1">>
  /\ \E o \in Queries(heap) :
       ToSQLDefault(heap, o) = <<"SELECT ", "*", " ", "FROM ", "<bq>", "t", "<bq>">>

\* C2: fromJSON(toJSON(n)), Table.deserialize(t.serialize()),
\* Join.deserialize(j.serialize()) and Query.deserialize(q.serialize()) give a
\* node of the kind of n that renders, in every flavor, the SQL n renders.
C2_RoundTrip ==
  (\/ ret.op \in {"fromJSON", "Table.deserialize", "Join.deserialize"}
   \/ (ret.op = "deserialize" /\ ret.arg # 0 /\ heap[ret.arg].kind = "SelectQuery"))
  => /\ ~ret.thrown
     /\ heap[ret.value].kind = heap[ret.arg].kind
     /\ \A f \in Flavors : NodeToSQL(heap, ret.value, f) = NodeToSQL(heap, ret.arg, f)

\* C2: the text of a query with a nested source, a join and a union was read back.
C2_Witness ==
  /\ ret.op = "deserialize"
  /\ ret.arg # 0
  /\ ~ret.thrown
  /\ ret.value # ret.arg
  /\ heap[ret.arg].kind = "SelectQuery"
  /\ heap[ret.arg].unionQueries # <<>>
  /\ heap[ret.arg].joins # <<>>
  /\ heap[ret.arg].tables # <<>>
  /\ heap[heap[ret.arg].tables[1]].source.isQuery

\* C3: a query with a table renders LIMIT n whenever its limit is present, and
\* OFFSET n whenever its offset is present, zero included.
C3_ZeroRenders ==
  \A q \in Queries(heap), f \in Flavors :
    Len(heap[q].tables) > 0 =>
      /\ heap[q].limit # Undefined =>
           Contains(SelectQueryToSQL(heap, q, f), <<" LIMIT ", ToString(heap[q].limit[1])>>)
      /\ heap[q].offset # Undefined =>
           Contains(SelectQueryToSQL(heap, q, f), <<" OFFSET ", ToString(heap[q].offset[1])>>)

\* C4: a.union(b, t) renders "(" a ") " t " (" b ")", t defaulting to UNION,
\* whatever a already holds (earlier unions, LIMIT, OFFSET, ORDER BY).
C4_UnionWrapping ==
  ret.op = "union" =>
    \A f \in Flavors :
      SelectQueryToSQL(heap, ret.value, f) =
        <<"(">> \o SelectQueryToSQL(heap, ret.recv, f) \o
        <<") ", Default(ret.type, "UNION"), " (">> \o
        SelectQueryToSQL(heap, ret.arg, f) \o <<")">>

\* C4: a second union, UNION ALL, was applied to a query that has a limit.
C4_Witness ==
  /\ ret.op = "union"
  /\ ret.type = Some("UNION ALL")
  /\ Len(heap[ret.recv].unionQueries) = 1
  /\ heap[ret.recv].limit = Some(1)

\* C5: in the statement of a query without unions the clause keywords stand in
\* the order SELECT, FROM, JOIN, WHERE, GROUP BY, HAVING, ORDER BY, LIMIT,
\* OFFSET; JOIN stands once per join, every other keyword at most once.
C5_ClauseOrder ==
  \A q \in Queries(heap), f \in Flavors :
    heap[q].unionQueries = <<>> =>
      LET sql == SelectQueryToSQL(heap, q, f)
      IN /\ sql[1] = "SELECT "
         /\ InGrammarOrder(sql)
         /\ AtMostOnce(sql, {" JOIN "})
         /\ Cardinality({i \in KeywordPositions(sql) : sql[i] = " JOIN "}) = Len(heap[q].joins)

\* C5: a statement with two joins and every clause populated.
C5_Witness ==
  \E q \in Queries(heap) :
    /\ heap[q].unionQueries = <<>>
    /\ Len(heap[q].joins) = 2
    /\ Cardinality(KeywordPositions(ToSQLDefault(heap, q))) = 10

\* C5 as stated: the keywords stand in the grammar's order and each of them,
\* JOIN included, stands at most once in the statement.
C5_EachKeywordOnce ==
  \A q \in Queries(heap), f \in Flavors :
    heap[q].unionQueries = <<>> =>
      LET sql == SelectQueryToSQL(heap, q, f)
      IN InGrammarOrder(sql) /\ AtMostOnce(sql, {})

\* C6: the `table` getter throws "No table defined" on a query without a
\* table and gives the first table otherwise; getTableName() and
\* getTableNames() throw the same error when a nested source has no table.
C6_NoTableError ==
  /\ ret.op = "table" =>
       IF Len(heap[ret.recv].tables) = 0
       THEN ret.thrown /\ ret.error = <<"No table defined">>
       ELSE ~ret.thrown /\ ret.value = heap[ret.recv].tables[1]
  /\ (ret.op = "getTableName" /\ NoTableBehind(heap, ret.recv)) =>
       ret.thrown /\ ret.error = <<"No table defined">>
  /\ (ret.op = "getTableNames" /\ NoTableIn(heap, ret.recv)) =>
       ret.thrown /\ ret.error = <<"No table defined">>

\* C6: getTableNames() of a query whose nested source has no table threw.
C6_Witness ==
  /\ ret.op = "getTableNames"
  /\ ret.thrown
  /\ Len(heap[ret.recv].tables) > 0
  /\ NoTableBehind(heap, heap[ret.recv].tables[1])

C8_DispatcherCoverage ==
  (ret.op = "deserialize" /\ ret.arg # 0) =>
    /\ ~ret.thrown
    /\ heap[ret.value].kind = heap[ret.arg].kind
    /\ \A f \in Flavors : NodeToSQL(heap, ret.value, f) = NodeToSQL(heap, ret.arg, f)

\* C9: what clone() or a builder method returns reaches no object that the
\* receiver reaches.
C9_NoAliasing ==
  ret.op \in Builders \cup {"clone"} =>
    Reach(heap, ret.value) \cap Reach(heap, ret.recv) = {}

\* C10: no builder call changes toSQL(f), toJSON() or serialize() of a query
\* that holds unions, whichever query is the receiver; union() stores the
\* query it is given, and every clone of a query copies its union targets.
C10_UnionNotRetroactive ==
  [][ret'.op \in Builders =>
       /\ \A u \in Queries(heap) :
            heap[u].unionQueries # <<>> => View(heap', u) = View(heap, u)
       /\ \A i \in DOMAIN heap[ret'.recv].unionQueries :
            heap'[ret'.value].unionQueries[i].query > Len(heap)
       /\ ret'.op = "union" =>
            heap'[ret'.value].unionQueries[Len(heap[ret'.recv].unionQueries) + 1].query
              = ret'.arg]_vars

\* C10: a builder was called on a query that another query holds as a union
\* target, and gave a query that renders differently.
C10_Witness ==
  /\ ret.op \in Builders \ {"union"}
  /\ ToSQLDefault(heap, ret.value) # ToSQLDefault(heap, ret.recv)
  /\ \E u \in Queries(heap) :
       /\ u # ret.recv
       /\ \E i \in DOMAIN heap[u].unionQueries : heap[u].unionQueries[i].query = ret.recv

\* The document q.serialize() writes: every clause of q, by value.
Doc(h, q) == SelectQuerySerialize(h, q).doc

\* C11: q.from(source, alias) holds exactly one table, a new Table with that
\* alias wrapping the string, or a new clone of the nested query given (equal
\* to it by value); every other clause of the result equals that of q.
C11_FromReplaces ==
  [][ret'.op = "from" =>
       /\ Len(heap'[ret'.value].tables) = 1
       /\ LET t == heap'[ret'.value].tables[1]
          IN /\ t > Len(heap)
             /\ heap'[t].kind = "Table"
             /\ heap'[t].alias = ret'.args.alias
             /\ IF ret'.args.source.isQuery
                THEN /\ heap'[t].source.isQuery
                     /\ heap'[t].source.ref > Len(heap)
                     /\ Doc(heap', heap'[t].source.ref) = Doc(heap, ret'.arg)
                ELSE heap'[t].source = ret'.args.source
       /\ [Doc(heap', ret'.value) EXCEPT !.tables = <<>>]
            = [Doc(heap, ret'.recv) EXCEPT !.tables = <<>>]]_vars

\* C11: from(query, "x") was called on a query that has two tables and every
\* other clause populated.
C11_Witness ==
  /\ ret.op = "from"
  /\ ret.args.source.isQuery
  /\ ret.args.alias = Some("x")
  /\ Len(heap[ret.recv].tables) = 2
  /\ heap[ret.recv].where # <<>>
  /\ heap[ret.recv].limit = Some(1)

\* What an append call must add to its clause, by value, after the call that
\* `r` records left the heap `h`.
Appended(h, r) ==
  CASE r.op \in {"field", "addField"} -> <<[name |-> r.args.name, alias |-> r.args.alias]>>
    [] r.op = "addFields" ->
         [i \in DOMAIN r.args |-> [name |-> h[r.args[i]].name, alias |-> h[r.args[i]].alias]]
    [] r.op \in {"where", "having"} -> <<ConditionToJSON(h[r.arg])>>
    [] r.op = "groupBy" -> r.args
    [] r.op = "orderBy" ->
         <<[field |-> r.args.field, direction |-> Default(r.args.direction, "ASC")]>>
    [] r.op \in {"join", "innerJoin", "leftJoin", "rightJoin", "fullJoin"} ->
         <<[type |-> "Join",
            table |-> StringifyTable(h, TableToJSON(h, r.arg)),
            condition |-> IF r.args.condition = Undefined THEN Undefined
                          ELSE Some(ConditionToJSON(h[r.args.condition[1]])),
            joinType |-> CASE r.op = "join" -> Default(r.type, "INNER")
                           [] r.op = "innerJoin" -> "INNER"
                           [] r.op = "leftJoin" -> "LEFT"
                           [] r.op = "rightJoin" -> "RIGHT"
                           [] r.op = "fullJoin" -> "FULL"]>>
    [] r.op = "union" -> <<[type |-> Default(r.type, "UNION"), query |-> Doc(h, r.arg)]>>

\* The clause an append call appends to.
ClauseOf(op) ==
  CASE op \in {"field", "addField", "addFields"} -> "fields"
    [] op \in {"join", "innerJoin", "leftJoin", "rightJoin", "fullJoin"} -> "joins"
    [] op = "union" -> "unionQueries"
    [] OTHER -> op

AppendOps ==
  {"field", "addField", "addFields", "where", "having", "groupBy", "orderBy",
   "join", "innerJoin", "leftJoin", "rightJoin", "fullJoin", "union"}

\* C12: an append call (field, addField, addFields, where, having, groupBy,
\* orderBy, join and its variants, union) gives a query whose clause is the
\* receiver's clause followed by the arguments in the order given, duplicates
\* kept, and whose other clauses equal the receiver's; where and having render
\* the conditions joined by " AND " in call order.
C12_AppendKeepsOrder ==
  [][ret'.op \in AppendOps =>
       /\ Doc(heap', ret'.value) =
            [Doc(heap, ret'.recv) EXCEPT ![ClauseOf(ret'.op)] = @ \o Appended(heap', ret')]
       /\ ret'.op = "where" =>
            \A f \in Flavors :
              Contains(SelectQueryToSQL(heap', ret'.value, f),
                       (IF heap[ret'.recv].where = <<>> THEN <<" WHERE ">>
                        ELSE WhereClause(heap, ret'.recv, f) \o <<" AND ">>)
                       \o ConditionToSQL(heap'[ret'.arg], f))
       /\ ret'.op = "having" =>
            \A f \in Flavors :
              Contains(SelectQueryToSQL(heap', ret'.value, f),
                       (IF heap[ret'.recv].having = <<>> THEN <<" HAVING ">>
                        ELSE HavingClause(heap, ret'.recv, f) \o <<" AND ">>)
                       \o ConditionToSQL(heap'[ret'.arg], f))]_vars

\* C12: where() was given a condition equal to the one the receiver already
\* holds, on a query that went on to hold it twice.
C12_Witness ==
  /\ ret.op = "where"
  /\ Len(heap[ret.recv].where) = 1
  /\ Len(heap[ret.value].where) = 2
  /\ heap[heap[ret.value].where[1]] = heap[heap[ret.value].where[2]]

\* The clause a clear/replace call sets, and the value it must hold after the
\* call that `r` records left the heap `h`.
Replaced(h, r) ==
  CASE r.op = "fields" ->
         [clause |-> "fields",
          value |-> [i \in DOMAIN r.args |-> [name |-> h[r.args[i]].name, alias |-> h[r.args[i]].alias]]]
    [] r.op = "removeFields" -> [clause |-> "fields", value |-> <<>>]
    [] r.op = "removeGroupBy" -> [clause |-> "groupBy", value |-> <<>>]
    [] r.op = "removeOrderBy" -> [clause |-> "orderBy", value |-> <<>>]
    [] r.op = "clearLimit" -> [clause |-> "limit", value |-> Undefined]
    [] r.op = "clearOffset" -> [clause |-> "offset", value |-> Undefined]
    [] r.op \in {"limit", "offset"} -> [clause |-> r.op, value |-> Some(r.args[1])]

ReplaceOps ==
  {"fields", "removeFields", "removeGroupBy", "removeOrderBy", "clearLimit", "clearOffset",
   "limit", "offset"}

\* q.toSQL(f) of a query a builder has just returned
ResultSQL(r, f) == SelectQueryToSQL(r.h, r.out, f)

\* C13: a clear/replace call (fields, removeFields, removeGroupBy,
\* removeOrderBy, clearLimit, clearOffset, limit, offset) gives a query whose
\* own clause holds exactly the new value and whose other clauses equal the
\* receiver's; an empty projection renders as "*"; clearing after setting
\* renders as clearing alone: q.limit(n).clearLimit() as q.clearLimit(),
\* q.offset(n).clearOffset() as q.clearOffset(), q.orderBy(x).removeOrderBy()
\* as q.removeOrderBy().
C13_ReplaceTouchesOwnClause ==
  [][ret'.op \in ReplaceOps =>
       /\ Doc(heap', ret'.value) =
            [Doc(heap, ret'.recv) EXCEPT ![Replaced(heap', ret').clause] = Replaced(heap', ret').value]
       /\ Doc(heap', ret'.value).fields = <<>> =>
            \A f \in Flavors :
              /\ SubSeq(StatementToSQL(heap', ret'.value, f), 1, 3) = <<"SELECT ", "*", " ">>
              /\ Contains(SelectQueryToSQL(heap', ret'.value, f), StatementToSQL(heap', ret'.value, f))
       /\ \A f \in Flavors :
            LET sql == SelectQueryToSQL(heap', ret'.value, f)
            IN /\ ret'.op = "clearLimit" =>
                    \A n \in 0..MaxBound :
                      ResultSQL(clearLimit(limit(heap, ret'.recv, n).h, limit(heap, ret'.recv, n).out), f) = sql
               /\ ret'.op = "clearOffset" =>
                    \A n \in 0..MaxBound :
                      ResultSQL(clearOffset(offset(heap, ret'.recv, n).h, offset(heap, ret'.recv, n).out), f) = sql
               /\ ret'.op = "removeOrderBy" =>
                    \A a \in OrderArgs :
                      ResultSQL(removeOrderBy(orderBy(heap, ret'.recv, a.field, a.direction).h,
                                              orderBy(heap, ret'.recv, a.field, a.direction).out), f) = sql]_vars

\* C13: removeFields() was called on a query that had a projection, a table,
\* a condition, an ordering and a limit.
C13_Witness ==
  /\ ret.op = "removeFields"
  /\ heap[ret.recv].fields # <<>> /\ heap[ret.value].fields = <<>>
  /\ heap[ret.recv].tables # <<>> /\ heap[ret.recv].where # <<>>
  /\ heap[ret.recv].orderBy # <<>> /\ heap[ret.recv].limit = Some(1)

\* The alias a nested source is rendered under: the one given, or "t".
NestedAlias(alias) == IF alias \in {Undefined, Some("")} THEN "t" ELSE alias[1]

\* C14: in every flavor f, a Table over a SelectQuery renders as "(" +
\* source.toSQL(f) + ") AS " + f.escapeColumn(alias), the alias being the
\* one given or "t" when none or an empty one was given, whatever the depth
\* of the Table; a Table over a name renders f.escapeTable(name), followed
\* by " AS " + f.escapeColumn(alias) exactly when it has a non-empty alias.
C14_NestedTableRendering ==
  \A t \in Nodes(heap, {"Table"}), f \in Flavors :
    IF heap[t].source.isQuery
    THEN TableToSQL(heap, t, f) =
           <<"(">> \o SelectQueryToSQL(heap, heap[t].source.ref, f) \o <<")", " AS ">>
           \o FlavorEscapeColumn(f, NestedAlias(heap[t].alias))
    ELSE TableToSQL(heap, t, f) =
           FlavorEscapeTable(f, heap[t].source.name)
           \o (IF heap[t].alias \in {Undefined, Some("")} THEN <<>>
               ELSE <<" AS ">> \o FlavorEscapeColumn(f, heap[t].alias[1]))

\* C14: from() was given a nested query without an alias whose own table is
\* a nested query given an empty alias, over a named table with an alias.
C14_Witness ==
  /\ ret.op = "from" /\ ~ret.thrown
  /\ \E t \in Nodes(heap, {"Table"}) :
       /\ heap[ret.value].tables = <<t>>
       /\ heap[t].source.isQuery /\ heap[t].alias = Undefined
       /\ \E u \in Nodes(heap, {"Table"}) :
            /\ heap[heap[t].source.ref].tables = <<u>>
            /\ heap[u].source.isQuery /\ heap[u].alias = Some("")
            /\ \E i \in DOMAIN heap[heap[u].source.ref].tables :
                 LET v == heap[heap[u].source.ref].tables[i]
                 IN ~heap[v].source.isQuery /\ heap[v].alias = Some("x")

\* The quote characters of all flavors.
Quotes == {FlavorQuote(f) : f \in Flavors}

\* Every name a client gives as a table, column or alias, and the default
\* alias of a nested source.
Identifiers == {"t", "u", "x", "id", "name", "n"}

\* In sql every identifier stands between two quotes of flavor f, and no
\* quote of another flavor occurs.
EscapedBy(sql, f) ==
  /\ \A i \in DOMAIN sql : sql[i] \in Quotes => sql[i] = FlavorQuote(f)
  /\ \A i \in DOMAIN sql :
       sql[i] \in Identifiers =>
         /\ 1 < i /\ i < Len(sql)
         /\ sql[i - 1] = FlavorQuote(f) /\ sql[i + 1] = FlavorQuote(f)

====
